---------------------------- MODULE Spec2Model ----------------------------
(***************************************************************************)
(* Model of ScrapeLeaderboard (scrape.py): get_table_data,                 *)
(* scroll_to_element, scrape and scrape_to_df.                             *)
(*                                                                         *)
(* The browser is the environment: what each wait, script, click and DOM   *)
(* query yields is chosen nondeterministically at the step that asks.      *)
(* Texts are sequences of one-character strings.                           *)
(***************************************************************************)
EXTENDS Integers, Sequences, FiniteSets, TLC

(* ------------------------------ bounds -------------------------------- *)
\* largest total the pagination indicator announces
MaxPages == 3
\* most <tr> elements under <tbody> on one page
MaxRows == 2
\* fewest / most <td> elements in one <tr>
MinCells == 4
MaxCells == 7
\* longest generated cell text handed to the typed projection
MaxLen == 1
\* most rows of a dataset handed directly to the typed projection
MaxDfRows == 2

(* --------------------------- program constants ------------------------ *)
\* "if i == 5: continue"
ExplorerColumn == 5
\* "if len(row_data) == 5"
RequiredColumns == 5
\* "range(2, total_pages + 1)"
FirstLoopPage == 2

(* ------------------------------ texts ---------------------------------- *)
DigitChars == <<"0", "1", "2", "3", "4", "5", "6", "7", "8", "9">>

Digit(n) == DigitChars[n + 1]

IsDigit(c) == \E i \in 1..10 : DigitChars[i] = c

DigitVal(c) == (CHOOSE i \in 1..10 : DigitChars[i] = c) - 1

(* str.split('of')[-1]: the text after the last occurrence of "of", or the *)
(* whole text when there is none.                                          *)
SplitOfLast(t) ==
    LET hits == {i \in 1..(Len(t) - 1) : t[i] = "o" /\ t[i + 1] = "f"}
    IN  IF hits = {} THEN t
        ELSE LET last == CHOOSE i \in hits : \A j \in hits : j <= i
             IN  SubSeq(t, last + 2, Len(t))

(* str.strip(): leading and trailing blanks removed (the blank is the only  *)
(* whitespace in the texts of the model).                                  *)
Strip(t) ==
    LET solid == {i \in 1..Len(t) : t[i] # " "}
    IN  IF solid = {} THEN <<>>
        ELSE LET lo == CHOOSE i \in solid : \A j \in solid : i <= j
                 hi == CHOOSE i \in solid : \A j \in solid : j <= i
             IN  SubSeq(t, lo, hi)

RECURSIVE DigitsValue(_)
DigitsValue(t) ==
    IF t = <<>> THEN 0
    ELSE 10 * DigitsValue(SubSeq(t, 1, Len(t) - 1)) + DigitVal(t[Len(t)])

AllDigits(t) == t # <<>> /\ \A i \in 1..Len(t) : IsDigit(t[i])

(* int(s): an unsigned decimal literal gives its value; every other text of *)
(* the model (empty, or holding a letter or an inner blank) is a            *)
(* ValueError.  No text of the model carries a sign or an underscore.       *)
PyInt(t) ==
    IF AllDigits(t) THEN [ok |-> TRUE, val |-> DigitsValue(t)]
    ELSE [ok |-> FALSE, val |-> 0]

(* int(pagination.text.split('of')[-1].strip())                            *)
ParseTotal(t) == PyInt(Strip(SplitOfLast(t)))

(* ------------------------- get_table_data ------------------------------ *)
\* A <tr> as the extractor meets it: its <td> texts in DOM order, and
\* whether reading it raises (a stale element, a detached cell).
TableRow(cells, raises) == [cells |-> cells, raises |-> raises]

\* "elif i == 5: continue" (the Mut variant skips the Owner column instead)
SkipColumnMut(i) == i = 4

SkipColumn(i) == i = ExplorerColumn

\* "for i, cell in enumerate(cells)": i is the 0-based index of the cell.
RECURSIVE CellLoop(_, _, _)
CellLoop(cells, i, row_data) ==
    IF i >= Len(cells) THEN row_data
    ELSE IF i = 4 THEN CellLoop(cells, i + 1, Append(row_data, cells[i + 1]))
    ELSE IF SkipColumn(i) THEN CellLoop(cells, i + 1, row_data)
    ELSE CellLoop(cells, i + 1, Append(row_data, cells[i + 1]))

\* "if len(row_data) == 5" (the Mut variant accepts every row)
RowAcceptedMut(row_data) == TRUE

RowAccepted(row_data) == Len(row_data) = RequiredColumns

\* "for row_idx, row in enumerate(rows)": a raising row is logged and skipped,
\* a row of another arity is logged and dropped.
RECURSIVE RowLoop(_, _, _)
RowLoop(rows, row_idx, data) ==
    IF row_idx > Len(rows) THEN data
    ELSE IF rows[row_idx].raises THEN RowLoop(rows, row_idx + 1, data)
    ELSE LET row_data == CellLoop(rows[row_idx].cells, 0, <<>>)
         IN  IF RowAccepted(row_data)
             THEN RowLoop(rows, row_idx + 1, Append(data, row_data))
             ELSE RowLoop(rows, row_idx + 1, data)

\* What the waits and the row query of one get_table_data call run into.
LoadOutcomes == {"ok", "timeout", "error"}

\* Whether get_table_data lets the outcome escape as an exception: both
\* except clauses return [] (the Mut variant lets the timeout through).
TableDataRaisesMut(outcome) == outcome = "timeout"

TableDataRaises(outcome) == FALSE

\* get_table_data's return value.
GetTableData(outcome, rows) ==
    IF outcome # "ok" THEN <<>>
    ELSE IF rows = <<>> THEN <<>>
    ELSE RowLoop(rows, 1, <<>>)

(* ------------------------- pages of the site --------------------------- *)
\* Text of the cell in column c (0-based) of row r of the v-th extraction:
\* the Points columns carry a thousands separator.
CellText(v, r, c) ==
    IF c \in {1, 3} THEN <<Digit(v), ",", Digit(r), Digit(c)>>
    ELSE <<Digit(v), Digit(r), Digit(c)>>

RowKinds == (MinCells..MaxCells) \cup {0}

\* Kind k > 0: a readable row of k cells; kind 0: a row whose read raises.
RowOfKind(v, r, k) ==
    IF k = 0 THEN TableRow([c \in 1..6 |-> CellText(v, r, c - 1)], TRUE)
    ELSE TableRow([c \in 1..k |-> CellText(v, r, c - 1)], FALSE)

\* The table bodies the v-th extraction may find.
Doms(v) ==
    UNION {{[r \in 1..n |-> RowOfKind(v, r, kinds[r])] : kinds \in [1..n -> RowKinds]}
           : n \in 0..MaxRows}

(* ------------------------- pagination indicator ------------------------ *)
PageOneOf == <<"P", "a", "g", "e", " ", "1", " ", "o", "f">>

\* Texts the first <p> containing 'Page' may carry: "Page 1 of <n>", and
\* texts without a total, without "of", with a non-numeric total, and with
\* words after the total.
IndicatorTexts ==
    {PageOneOf \o <<" ", Digit(n)>> : n \in 0..MaxPages}
    \cup {PageOneOf,
          <<"P", "a", "g", "e", " ", "1">>,
          PageOneOf \o <<" ", "N">>,
          PageOneOf \o <<" ", "2", " ", "p", "a", "g", "e", "s">>,
          <<"P", "a", "g", "e", "s", " ", "o", "f", " ", "2", " ">>}

(* ------------------------------ state ---------------------------------- *)
VARIABLES
    pc,             \* where scrape_to_df / scrape stands
    driver,         \* "none" (driver = None), "open", "closed" (after quit)
    all_data,       \* scrape's aggregate
    total_pages,    \* parsed total of the indicator
    page,           \* the loop variable (1 before the loop)
    dom,            \* the <tbody> rows found by the get_table_data call that
                    \* has just returned (<<>> once the caller has moved on)
    outcome,        \* what that call ran into ("none" once the caller moved on)
    results,        \* history: the value of every get_table_data call, in order
    clicked,        \* history: page numbers for which next_button.click() ran
    lookups,        \* history: waits made for the pagination indicator
    fail,           \* history: the exception scrape caught, if any
    scroll_raised,  \* whether scroll_to_element caught an exception for the
                    \* page being processed
    used_after_quit,\* whether a browser operation ran on a closed session
    retval,         \* scrape's return value
    df,             \* the typed table built by scrape_to_df
    csv,            \* contents of points_leaderboard.csv
    csv0,           \* history: contents of the file before the run
    result          \* scrape_to_df's return value

vars == <<pc, driver, all_data, total_pages, page, dom, outcome, results,
          clicked, lookups, fail, scroll_raised, used_after_quit, retval,
          df, csv, csv0, result>>

scrapeVars == <<driver, all_data, total_pages, page, dom, outcome, results,
                clicked, lookups, fail, scroll_raised, used_after_quit, retval>>

dfVars == <<df, csv, csv0, result>>

NoFailure == [kind |-> "none", page |-> 0]

Failure(kind, p) == [kind |-> kind, page |-> p]

\* The file before the run: absent, or left by an earlier run.
Absent == <<"absent">>
Stale == <<"stale">>

\* What scrape_to_df has yet to return.
Pending == <<"pending">>

\* pd.DataFrame(): the empty table.
EmptyFrame == <<>>

\* scrape_to_df has just called scrape(), in a working directory that holds
\* no output file yet.
Init ==
    /\ pc = "new_driver"
    /\ driver = "none"
    /\ all_data = <<>>
    /\ total_pages = 0
    /\ page = 1
    /\ dom = <<>>
    /\ outcome = "none"
    /\ results = <<>>
    /\ clicked = <<>>
    /\ lookups = 0
    /\ fail = NoFailure
    /\ scroll_raised = FALSE
    /\ used_after_quit = FALSE
    /\ retval = <<>>
    /\ df = EmptyFrame
    /\ csv0 = Absent
    /\ csv = csv0
    /\ result = Pending

\* Every call on the driver or one of its elements passes through here.
BrowserOp == used_after_quit' = (used_after_quit \/ driver = "closed")

(* ------------------------------ scrape --------------------------------- *)
\* driver = ChromeDriver(service=self.service)
NewDriver ==
    /\ pc = "new_driver"
    /\ \E started \in BOOLEAN :
         IF started
         THEN /\ driver' = "open"
              /\ pc' = "get"
              /\ fail' = fail
         ELSE /\ driver' = driver
              /\ pc' = "except"
              /\ fail' = Failure("driver", 0)
    /\ UNCHANGED <<all_data, total_pages, page, dom, outcome, results, clicked,
                   lookups, scroll_raised, used_after_quit, retval>>
    /\ UNCHANGED dfVars

\* driver.get(self.url)
GetUrl ==
    /\ pc = "get"
    /\ BrowserOp
    /\ \E loaded \in BOOLEAN :
         IF loaded
         THEN pc' = "first" /\ fail' = fail
         ELSE pc' = "except" /\ fail' = Failure("get", 0)
    /\ UNCHANGED <<driver, all_data, total_pages, page, dom, outcome, results,
                   clicked, lookups, scroll_raised, retval>>
    /\ UNCHANGED dfVars

\* all_data = self.get_table_data(driver)
FirstPage ==
    /\ pc = "first"
    /\ BrowserOp
    /\ \E o \in LoadOutcomes, d \in Doms(1) :
         /\ outcome' = o
         /\ dom' = IF o = "ok" THEN d ELSE <<>>
         /\ IF TableDataRaises(o)
            THEN /\ pc' = "except"
                 /\ fail' = Failure("table", 1)
                 /\ UNCHANGED <<all_data, results>>
            ELSE /\ all_data' = GetTableData(o, d)
                 /\ results' = Append(results, GetTableData(o, d))
                 /\ pc' = "pagination"
                 /\ fail' = fail
    /\ UNCHANGED <<driver, total_pages, page, clicked, lookups, scroll_raised,
                   retval>>
    /\ UNCHANGED dfVars

\* Where control goes when the indicator wait or the int() parse raises:
\* the inner "except Exception" logs and falls through to "return all_data"
\* (the Mut variant has no inner handler: the outer one returns []).
PaginationHandlerMut == "except"

PaginationHandler == "return"

\* pagination = wait.until(presence_of_element_located(<p> containing 'Page'))
\* total_pages = int(pagination.text.split('of')[-1].strip())
Pagination ==
    /\ pc = "pagination"
    /\ BrowserOp
    /\ lookups' = lookups + 1
    /\ \/ /\ pc' = PaginationHandler
          /\ fail' = Failure("indicator", 0)
          /\ UNCHANGED total_pages
       \/ \E text \in IndicatorTexts :
            IF ParseTotal(text).ok
            THEN /\ total_pages' = ParseTotal(text).val
                 /\ pc' = "loop"
                 /\ fail' = fail
            ELSE /\ pc' = PaginationHandler
                 /\ fail' = Failure("parse", 0)
                 /\ UNCHANGED total_pages
    /\ dom' = <<>>
    /\ outcome' = "none"
    /\ UNCHANGED <<driver, all_data, page, results, clicked, scroll_raised,
                   retval>>
    /\ UNCHANGED dfVars

\* "for page in range(2, total_pages + 1)": the next value, or the loop's end.
LoopNext ==
    /\ pc = "loop"
    /\ IF page + 1 >= FirstLoopPage /\ page + 1 <= total_pages
       THEN page' = page + 1 /\ pc' = "wait_next"
       ELSE page' = page /\ pc' = "return"
    /\ dom' = <<>>
    /\ outcome' = "none"
    /\ UNCHANGED <<driver, all_data, total_pages, results, clicked, lookups, fail,
                   scroll_raised, used_after_quit, retval>>
    /\ UNCHANGED dfVars

\* Where control goes when processing a page raises: "break" (the Mut
\* variant continues with the next page number).
PageHandlerMut == "loop"

PageHandler == "return"

\* next_button = wait.until(element_to_be_clickable(<button> '>'))
WaitNext ==
    /\ pc = "wait_next"
    /\ BrowserOp
    /\ \E clickable \in BOOLEAN :
         IF clickable
         THEN pc' = "scroll" /\ fail' = fail
         ELSE pc' = PageHandler /\ fail' = Failure("wait", page)
    /\ UNCHANGED <<driver, all_data, total_pages, page, dom, outcome, results,
                   clicked, lookups, scroll_raised, retval>>
    /\ UNCHANGED dfVars

\* Whether an exception raised inside scroll_to_element reaches its caller:
\* its "except Exception" logs and returns (the Mut variant re-raises).
ScrollErrorEscapesMut == TRUE

ScrollErrorEscapes == FALSE

\* What the bounding-box script hands back.
Rects == {"inside", "outside", "malformed"}

\* self.scroll_to_element(driver, next_button): scripts 1..4 always run, the
\* recentering script 5 only for a box outside the viewport; at is the script
\* that raises (0: none), and reading a malformed box raises as well.
ScrollToElement ==
    /\ pc = "scroll"
    /\ BrowserOp
    /\ \E at \in 0..5, rect \in Rects :
         LET raised == \/ at \in 1..4
                       \/ (at \in {0, 5} /\ rect = "malformed")
                       \/ (at = 5 /\ rect = "outside")
         IN  /\ scroll_raised' = raised
             /\ IF raised /\ ScrollErrorEscapes
                THEN pc' = PageHandler /\ fail' = Failure("scroll", page)
                ELSE pc' = "click" /\ fail' = fail
    /\ UNCHANGED <<driver, all_data, total_pages, page, dom, outcome, results,
                   clicked, lookups, retval>>
    /\ UNCHANGED dfVars

\* next_button.click()
Click ==
    /\ pc = "click"
    /\ BrowserOp
    /\ clicked' = Append(clicked, page)
    /\ \E done \in BOOLEAN :
         IF done
         THEN pc' = "extract" /\ fail' = fail
         ELSE pc' = PageHandler /\ fail' = Failure("click", page)
    /\ UNCHANGED <<driver, all_data, total_pages, page, dom, outcome, results,
                   lookups, scroll_raised, retval>>
    /\ UNCHANGED dfVars

\* all_data.extend(page_data) (the Mut variant puts the new rows in front)
ExtendMut(data, page_data) == page_data \o data

Extend(data, page_data) == data \o page_data

\* page_data = self.get_table_data(driver); all_data.extend(page_data)
ExtractPage ==
    /\ pc = "extract"
    /\ BrowserOp
    /\ \E o \in LoadOutcomes, d \in Doms(Len(results) + 1) :
         /\ outcome' = o
         /\ dom' = IF o = "ok" THEN d ELSE <<>>
         /\ IF TableDataRaises(o)
            THEN /\ pc' = PageHandler
                 /\ fail' = Failure("table", page)
                 /\ UNCHANGED <<all_data, results>>
            ELSE /\ all_data' = Extend(all_data, GetTableData(o, d))
                 /\ results' = Append(results, GetTableData(o, d))
                 /\ pc' = "loop"
                 /\ fail' = fail
    /\ scroll_raised' = FALSE
    /\ UNCHANGED <<driver, total_pages, page, clicked, lookups, retval>>
    /\ UNCHANGED dfVars

\* return all_data
Return ==
    /\ pc = "return"
    /\ retval' = all_data
    /\ pc' = "finally"
    /\ UNCHANGED <<driver, all_data, total_pages, page, dom, outcome, results,
                   clicked, lookups, fail, scroll_raised, used_after_quit>>
    /\ UNCHANGED dfVars

\* except Exception: return []
Except ==
    /\ pc = "except"
    /\ retval' = <<>>
    /\ pc' = "finally"
    /\ UNCHANGED <<driver, all_data, total_pages, page, dom, outcome, results,
                   clicked, lookups, fail, scroll_raised, used_after_quit>>
    /\ UNCHANGED dfVars

\* "if driver: driver.quit()" (the Mut variant never quits)
AfterFinallyMut(d) == d

AfterFinally(d) == IF d # "none" THEN "closed" ELSE d

\* finally: if driver: driver.quit()
Finally ==
    /\ pc = "finally"
    /\ driver' = AfterFinally(driver)
    /\ used_after_quit' = (used_after_quit \/ driver = "closed")
    /\ pc' = "df_check"
    /\ UNCHANGED <<all_data, total_pages, page, dom, outcome, results, clicked,
                   lookups, fail, scroll_raised, retval>>
    /\ UNCHANGED dfVars

(* ---------------------------- scrape_to_df ------------------------------ *)
\* A missing value (NaN) and a number, as cells of the typed table.
NaN == <<>>
Num(n) == <<n>>

\* The None that pd.DataFrame pads a short row with.
NoneCell == <<"None">>

\* Series.str.replace(',', '') (the Mut variant leaves the text as it is)
StripCommasMut(t) == t

StripCommas(t) == SelectSeq(t, LAMBDA c : c # ",")

\* pd.to_numeric(..., errors='coerce') on one cell: an unsigned decimal
\* literal becomes its value, any other text of the model a missing value.
ToNumeric(t) == IF AllDigits(t) THEN Num(DigitsValue(t)) ELSE NaN

CellAt(row, c) == IF c <= Len(row) THEN row[c] ELSE NoneCell

\* One row under the schema Rank, Points, Referrals, Points from Referrals,
\* Owner, after the four numeric clean-ups.
TypedRow(row) ==
    <<ToNumeric(CellAt(row, 1)),
      ToNumeric(StripCommas(CellAt(row, 2))),
      ToNumeric(CellAt(row, 3)),
      ToNumeric(StripCommas(CellAt(row, 4))),
      CellAt(row, 5)>>

\* pd.DataFrame(data, columns=[five names]) raises unless there is no row or
\* the longest row has five fields.
FrameRaises(data) ==
    /\ data # <<>>
    /\ \A n \in {Len(data[i]) : i \in 1..Len(data)} :
         (\A m \in {Len(data[i]) : i \in 1..Len(data)} : m <= n) => n # RequiredColumns

TypedTable(data) == [i \in 1..Len(data) |-> TypedRow(data[i])]

\* "if not data" (the Mut variant never takes the early return)
NoDataMut(data) == FALSE

NoData(data) == data = <<>>

\* data = self.scrape(); if not data: return pd.DataFrame(); otherwise build
\* the frame and clean the numeric columns.
BuildFrame ==
    /\ pc = "df_check"
    /\ IF NoData(retval)
       THEN /\ result' = EmptyFrame
            /\ pc' = "done"
            /\ UNCHANGED df
       ELSE IF FrameRaises(retval)
       THEN /\ result' = EmptyFrame
            /\ pc' = "done"
            /\ UNCHANGED df
       ELSE /\ df' = TypedTable(retval)
            /\ pc' = "to_csv"
            /\ UNCHANGED result
    /\ UNCHANGED <<csv, csv0>>
    /\ UNCHANGED scrapeVars

\* The file after a write that completed.
Written(table) == <<"written", table>>

\* The file after a write that raised once the file was open.
Truncated == <<"truncated">>

\* df.to_csv('points_leaderboard.csv', index=False); return df.  A write that
\* raises leaves the file as it was or cut short, and the outer handler
\* returns pd.DataFrame().
ToCsv ==
    /\ pc = "to_csv"
    /\ \/ /\ csv' = Written(df)
          /\ result' = df
       \/ /\ csv' \in {csv, Truncated}
          /\ result' = EmptyFrame
    /\ pc' = "done"
    /\ UNCHANGED <<df, csv0>>
    /\ UNCHANGED scrapeVars

(* --------------------------- specifications ---------------------------- *)
Next ==
    \/ NewDriver
    \/ GetUrl
    \/ FirstPage
    \/ Pagination
    \/ LoopNext
    \/ WaitNext
    \/ ScrollToElement
    \/ Click
    \/ ExtractPage
    \/ Return
    \/ Except
    \/ Finally
    \/ BuildFrame
    \/ ToCsv

Spec == Init /\ [][Next]_vars

\* Cell texts handed directly to the typed projection: every text of at
\* most MaxLen characters over a digit, the separator and a letter, and the
\* two texts "12,345" and "N/A".
TextChars == {"1", ",", "N"}

DfTexts ==
    UNION {[1..n -> TextChars] : n \in 0..MaxLen}
    \cup {<<"1", "2", ",", "3", "4", "5">>, <<"N", "/", "A">>}

\* A scraped row whose five cells all read t.
UniformRow(t) == <<t, t, t, t, t>>

DfDatasets ==
    UNION {{[i \in 1..n |-> UniformRow(ts[i])] : ts \in [1..n -> DfTexts]}
           : n \in 0..MaxDfRows}

\* scrape() has just returned a one-page dataset (possibly empty) to
\* scrape_to_df, in a working directory with or without an earlier file.
InitDf ==
    /\ pc = "df_check"
    /\ driver = "closed"
    /\ retval \in DfDatasets
    /\ all_data = retval
    /\ total_pages = 1
    /\ page = 1
    /\ dom = <<>>
    /\ outcome = "none"
    /\ results = <<retval>>
    /\ clicked = <<>>
    /\ lookups = 1
    /\ fail = NoFailure
    /\ scroll_raised = FALSE
    /\ used_after_quit = FALSE
    /\ df = EmptyFrame
    /\ csv0 \in {Absent, Stale}
    /\ csv = csv0
    /\ result = Pending

NextDf == BuildFrame \/ ToCsv

SpecDf == InitDf /\ [][NextDf]_vars

(* ------------------------------ properties ----------------------------- *)
\* scrape() has executed its return statement.
Returned == pc \in {"finally", "df_check", "to_csv", "done"}

\* scrape() has run its finally clause and handed control back.
Exited == pc \in {"df_check", "to_csv", "done"}

Last(s) == s[Len(s)]

\* The concatenation of a sequence of page results.
RECURSIVE Flatten(_)
Flatten(ss) == IF ss = <<>> THEN <<>> ELSE Head(ss) \o Flatten(Tail(ss))

\* The page (extraction number) and the row number a scraped row came from,
\* read off its Rank cell.
RowPage(row) == DigitVal(row[1][1])
RowIndex(row) == DigitVal(row[1][2])

\* C1: in every state of scrape(), every row of the aggregate all_data, of
\* every page result and of the returned value has exactly 5 fields.
C1_RowsHaveFiveFields ==
    /\ \A i \in 1..Len(all_data) : Len(all_data[i]) = 5
    /\ \A i \in 1..Len(retval) : Len(retval[i]) = 5
    /\ \A k \in 1..Len(results) : \A i \in 1..Len(results[k]) : Len(results[k][i]) = 5

\* C1 witness: a later page showing a readable row of 7 cells beside one of
\* 6 has just been folded into the aggregate, which holds the latter only.
C1_Witness ==
    /\ pc = "loop"
    /\ Len(results) >= 2
    /\ Len(Last(results)) = 1
    /\ all_data # <<>>
    /\ \E r \in 1..Len(dom) : ~dom[r].raises /\ Len(dom[r].cells) = 7
    /\ \E r \in 1..Len(dom) : ~dom[r].raises /\ Len(dom[r].cells) = 6

\* C2: the next control is clicked for the page numbers 2, 3, ... in
\* ascending order, once each; and when the indicator gave N and no step
\* failed, the finished run has clicked exactly for 2..N (N-1 clicks for
\* N >= 1), holds one page result per page, and returns their concatenation
\* in page order, rows of a page in DOM order.
C2_PagesInOrder ==
    /\ \A i \in 1..Len(clicked) : clicked[i] = i + 1
    /\ (Returned /\ fail = NoFailure /\ lookups = 1) =>
          /\ clicked = [i \in 1..(IF total_pages >= 1 THEN total_pages - 1 ELSE 0) |-> i + 1]
          /\ Len(results) = (IF total_pages >= 1 THEN total_pages ELSE 1)
          /\ retval = Flatten(results)
          /\ \A i, j \in 1..Len(retval) :
                i < j => \/ RowPage(retval[i]) < RowPage(retval[j])
                         \/ /\ RowPage(retval[i]) = RowPage(retval[j])
                            /\ RowIndex(retval[i]) < RowIndex(retval[j])

\* C2 witness: a run over "Page 1 of 3" (or more) finished without failure
\* and returned rows of pages 1, 2 and 3, two of them from page 2.
C2_Witness ==
    /\ pc = "done"
    /\ fail = NoFailure
    /\ total_pages >= 3
    /\ Len(clicked) = total_pages - 1
    /\ \A k \in 1..3 : \E i \in 1..Len(retval) : RowPage(retval[i]) = k
    /\ Len(results[2]) = 2

\* C3: once the wait for the next control or the click raised on page k, the
\* loop is over: control is at or past the return, no click was made for a
\* page above k, exactly the pages 1..k-1 were extracted, and the returned
\* value is the rows of those pages.
C3_PageErrorEndsLoop ==
    fail.kind \in {"wait", "click"} =>
       /\ pc \in {"return", "finally", "df_check", "to_csv", "done"}
       /\ page = fail.page
       /\ \A i \in 1..Len(clicked) : clicked[i] <= fail.page
       /\ Len(clicked) = (IF fail.kind = "click" THEN fail.page - 1 ELSE fail.page - 2)
       /\ Len(results) = fail.page - 1
       /\ all_data = Flatten(results)
       /\ Returned => retval = Flatten(results)

\* C3 witness: the click for page 2 of at least 3 raised, and the run ended
\* with the rows of page 1 alone.
C3_Witness ==
    /\ pc = "done"
    /\ fail = Failure("click", 2)
    /\ total_pages >= 3
    /\ retval # <<>>
    /\ retval = results[1]

\* C4: once scrape() has handed control back, a session that was acquired is
\* closed; a session is closed only then; and no browser operation ever ran
\* on a closed session.
C4_SessionReleased ==
    /\ Exited => driver \in {"none", "closed"}
    /\ (Exited /\ fail.kind # "driver") => driver = "closed"
    /\ driver = "closed" => Exited
    /\ ~used_after_quit

\* C4 witness: opening the URL raised after the session was acquired, and
\* the session is closed when scrape() has returned.
C4_Witness ==
    /\ pc = "done"
    /\ fail.kind = "get"
    /\ driver = "closed"

\* C5: once the indicator wait timed out or its total did not parse, control
\* is at or past the return with no click made and only the first page
\* extracted, and the returned value is the first page's rows.
C5_PaginationAbandoned ==
    fail.kind \in {"indicator", "parse"} =>
       /\ pc \in {"return", "finally", "df_check", "to_csv", "done"}
       /\ clicked = <<>>
       /\ Len(results) = 1
       /\ all_data = results[1]
       /\ Returned => retval = results[1]

\* C5 witness: the indicator's total did not parse and the run returned the
\* rows of a non-empty first page.
C5_Witness ==
    /\ pc = "done"
    /\ fail.kind = "parse"
    /\ retval # <<>>
    /\ retval = results[1]

\* The cells of a row without the one at column index 5.
WithoutExplorer(cells) ==
    [j \in 1..(IF Len(cells) >= 6 THEN Len(cells) - 1 ELSE Len(cells)) |->
        IF j <= 5 THEN cells[j] ELSE cells[j + 1]]

\* The rows of a table body that read without raising and leave 5 fields.
KeptRows(rows) ==
    SelectSeq(rows, LAMBDA r : ~r.raises /\ Len(WithoutExplorer(r.cells)) = 5)

\* C6: the result of the latest extraction that found its table is, in DOM
\* order, each kept row's cells without the cell at column index 5; a row of
\* 6 cells gives its first 5.
C6_ExplorerColumnSkipped ==
    (results # <<>> /\ outcome = "ok") =>
       /\ Len(Last(results)) = Len(KeptRows(dom))
       /\ \A i \in 1..Len(KeptRows(dom)) :
             Last(results)[i] = WithoutExplorer(KeptRows(dom)[i].cells)
       /\ \A r \in 1..Len(dom) :
             (~dom[r].raises /\ Len(dom[r].cells) = 6) =>
                \E i \in 1..Len(Last(results)) :
                   Last(results)[i] = SubSeq(dom[r].cells, 1, 5)

\* C6 witness: a page of two readable 6-cell rows gave both rows.
C6_Witness ==
    /\ outcome = "ok"
    /\ Len(dom) = 2
    /\ \A r \in 1..2 : ~dom[r].raises /\ Len(dom[r].cells) = 6
    /\ results # <<>>
    /\ Len(Last(results)) = 2

\* C7: a table wait that times out gives an empty page result and the run
\* goes on: on the first page control passes to the indicator lookup, which
\* is made; inside the loop the rows collected so far are kept, no failure is
\* recorded and the loop advances to the next page number.
C7_TimeoutKeepsGoing ==
    [][/\ (pc = "first" /\ outcome' = "timeout") =>
              (pc' = "pagination" /\ all_data' = <<>> /\ fail' = fail)
       /\ pc = "pagination" => lookups' = lookups + 1
       /\ (pc = "extract" /\ outcome' = "timeout") =>
              /\ pc' = "loop"
              /\ all_data' = all_data
              /\ results' = Append(results, <<>>)
              /\ fail' = fail
       /\ (pc = "loop" /\ page >= 1 /\ page < total_pages) =>
              (pc' = "wait_next" /\ page' = page + 1 /\ all_data' = all_data)]_vars

\* C7 witness: the table wait on page 2 of at least 3 has just timed out,
\* and the loop is about to go on with the rows of page 1 in the aggregate.
C7_Witness ==
    /\ pc = "loop"
    /\ page = 2
    /\ total_pages >= 3
    /\ outcome = "timeout"
    /\ Len(results) = 2
    /\ results[2] = <<>>
    /\ all_data # <<>>
    /\ all_data = results[1]

\* Whether a text is an unsigned decimal literal once the characters in
\* drop are removed.
Parses(t, drop) ==
    /\ \E i \in 1..Len(t) : t[i] \notin drop
    /\ \A i \in 1..Len(t) : t[i] \in drop \/ IsDigit(t[i])

\* C8: for a non-empty dataset the typed table is built with one row per
\* dataset row, in order (Owner passed through); "12,345" in a Points column
\* is 12345, "N/A" in any numeric column is missing; a Points cell is a
\* number exactly when it parses without its commas, a Rank or Referrals
\* cell exactly when it parses as it stands; and a completed write returns
\* the whole table.
C8_TypedProjection ==
    (retval # <<>> /\ pc \in {"to_csv", "done"}) =>
       /\ Len(df) = Len(retval)
       /\ \A i \in 1..Len(retval) :
             /\ Len(df[i]) = 5
             /\ df[i][5] = retval[i][5]
             /\ \A c \in {2, 4} :
                   /\ retval[i][c] = <<"1", "2", ",", "3", "4", "5">> => df[i][c] = <<12345>>
                   /\ (df[i][c] # NaN) <=> Parses(retval[i][c], {","})
             /\ \A c \in {1, 3} : (df[i][c] # NaN) <=> Parses(retval[i][c], {})
             /\ \A c \in 1..4 : retval[i][c] = <<"N", "/", "A">> => df[i][c] = NaN
       /\ (pc = "done" /\ csv = Written(df)) => result = df

\* C8 witness: a dataset of a "12,345" row and an "N/A" row was projected
\* and written: two typed rows, 12345 in Points, missing values in the second.
C8_Witness ==
    /\ pc = "done"
    /\ Len(retval) = 2
    /\ retval[1][2] = <<"1", "2", ",", "3", "4", "5">>
    /\ retval[2][2] = <<"N", "/", "A">>
    /\ Len(result) = 2
    /\ result[1][2] = <<12345>>
    /\ result[1][1] = NaN
    /\ result[2][2] = NaN
    /\ csv = Written(result)

\* C9: when scrape() returned no rows, scrape_to_df ends with the file as it
\* was before the run, no typed table built, and the empty table returned.
C9_EmptySkipsPersistence ==
    (retval = <<>> /\ pc \in {"df_check", "to_csv", "done"}) =>
       /\ csv = csv0
       /\ df = EmptyFrame
       /\ pc # "to_csv"
       /\ pc = "done" => result = EmptyFrame

\* C9 witness: scrape() returned no rows and scrape_to_df has ended with
\* the file of an earlier run untouched.
C9_Witness ==
    /\ pc = "done"
    /\ retval = <<>>
    /\ csv0 = Stale
    /\ csv = Stale
    /\ result = EmptyFrame

\* C10: when scroll_to_element caught an exception, control still passes to
\* the click for the same page with nothing recorded as failed and the
\* aggregate untouched; the click is then made, and a click that succeeds is
\* followed by the extraction.
C10_ScrollFailureSwallowed ==
    [][/\ (pc = "scroll" /\ scroll_raised') =>
              (pc' = "click" /\ page' = page /\ fail' = fail /\ all_data' = all_data)
       /\ pc = "click" =>
              /\ clicked' = Append(clicked, page)
              /\ fail' = fail => pc' = "extract"
       /\ pc = "extract" => Len(results') = Len(results) + 1]_vars

\* C10 witness: the scroll for the current page caught an exception, the
\* click for that page was made and succeeded, and the extraction is next.
C10_Witness ==
    /\ pc = "extract"
    /\ page >= 2
    /\ scroll_raised
    /\ Last(clicked) = page
    /\ fail = NoFailure
    /\ Len(results) = page - 1

=============================================================================
